---- MODULE Spec2Model ----
(***************************************************************************)
(* Model of the two scripts of the repository:                             *)
(*   scripts/yt_download_and_trim/yt_dt.py          (parse, download, trim) *)
(*   scripts/extract_bass_drums_from_youtube.py     (resolve, separate,     *)
(*                                                   normalise, overlay)    *)
(* Each component is checked under its own specification; the variables   *)
(* of the other components stay at their initial values.                   *)
(* Characters are Unicode code points, strings are sequences of them.      *)
(***************************************************************************)
EXTENDS Integers, Sequences, FiniteSets, TLC

VARIABLES
  \* trim_audio
  dur, tStart, tEnd, tRes,
  \* parse_time_to_seconds
  pStr, pRes,
  \* re.sub(SPECIAL_CHARS, "", .)
  sIn, sOut,
  \* normalize_visually
  nIn, nOut,
  \* AudioSegment.overlay
  seg1, seg2, mixed,
  \* download_youtube_audio file search
  wTitle, wFiles, wRes, wDir,
  \* main flow of extract_bass_drums_from_youtube.py
  title, listing, pc, matchIdx, safePath, safeTitle, demucsOk, demucsDirs,
  bassDb, drumsDb, bassGain, drumsGain, outputWritten, errTitle

trimVars == <<dur, tStart, tEnd, tRes>>
parseVars == <<pStr, pRes>>
sanVars == <<sIn, sOut>>
normVars == <<nIn, nOut>>
ovVars == <<seg1, seg2, mixed>>
wordVars == <<wTitle, wFiles, wRes, wDir>>
pipeVars == <<title, listing, pc, matchIdx, safePath, safeTitle, demucsOk,
              demucsDirs, bassDb, drumsDb, bassGain, drumsGain, outputWritten, errTitle>>
vars == <<trimVars, parseVars, sanVars, normVars, ovVars, wordVars, pipeVars>>

Min(a, b) == IF a < b THEN a ELSE b
Max(a, b) == IF a > b THEN a ELSE b
Abs(a) == IF a < 0 THEN -a ELSE a

\* All sequences over alphabet A of length at most n.
SeqsUpTo(A, n) == UNION {[1..k -> A] : k \in 0..n}

(***************************************************************************)
(* Python helpers on code-point strings                                    *)
(***************************************************************************)
\* str.isspace for code points
PyWhitespace == {9, 10, 11, 12, 13, 28, 29, 30, 31, 32, 133, 160, 5760,
                 8192, 8193, 8194, 8195, 8196, 8197, 8198, 8199, 8200, 8201,
                 8202, 8232, 8233, 8239, 8287, 12288}

RECURSIVE PyLStrip(_)
PyLStrip(s) == IF s # <<>> /\ Head(s) \in PyWhitespace THEN PyLStrip(Tail(s)) ELSE s

RECURSIVE PyRStrip(_)
PyRStrip(s) == IF s # <<>> /\ s[Len(s)] \in PyWhitespace
                 THEN PyRStrip(SubSeq(s, 1, Len(s) - 1)) ELSE s

\* str.strip()
PyStrip(s) == PyRStrip(PyLStrip(s))

\* str.lower() on the alphabet used here (ASCII letters)
LowerChar(c) == IF c \in 65..90 THEN c + 32 ELSE c
PyLower(s) == [i \in 1..Len(s) |-> LowerChar(s[i])]

\* str.split(sep): keeps empty fields
RECURSIVE SplitAcc(_, _, _)
SplitAcc(s, sep, cur) ==
  IF s = <<>> THEN <<cur>>
  ELSE IF Head(s) = sep THEN <<cur>> \o SplitAcc(Tail(s), sep, <<>>)
  ELSE SplitAcc(Tail(s), sep, Append(cur, Head(s)))
PySplit(s, sep) == SplitAcc(s, sep, <<>>)

\* the "in" operator on strings: t is a substring of s
IsSubstring(t, s) ==
  \E i \in 0..(Len(s) - Len(t)) : SubSeq(s, i + 1, i + Len(t)) = t

\* str.endswith
EndsWith(s, t) == Len(t) <= Len(s) /\ SubSeq(s, Len(s) - Len(t) + 1, Len(s)) = t

(***************************************************************************)
(* TimeSpec parser: parse_time_to_seconds (yt_dt.py)                        *)
(***************************************************************************)
Colon == 58
Digits == 48..57
MaxTimeLen == 5
TimeAlphabet == {48, 49, 51, Colon, 45, 46}

\* code points of the digit zero of every run of ten Unicode decimal digits
\* (category Nd); int() maps each decimal digit to its ASCII value
DecimalZeros == {48, 1632, 1776, 1984, 2406, 2534, 2662, 2790, 2918, 3046, 3174,
                 3302, 3430, 3558, 3664, 3792, 3872, 4160, 4240, 6112, 6160, 6470,
                 6608, 6784, 6800, 6992, 7088, 7232, 7248, 42528, 43216, 43264,
                 43472, 43504, 43600, 44016, 65296, 66720, 68912, 69734, 69872,
                 69942, 70096, 70384, 70736, 70864, 71248, 71360, 71472, 71904,
                 72016, 72784, 73040, 73120, 73552, 92768, 92864, 93008, 120782,
                 120792, 120802, 120812, 120822, 123200, 123632, 124144, 125264,
                 130032}
IsDecimal(c) == \E z \in DecimalZeros : z <= c /\ c <= z + 9
DecimalValue(c) == c - (CHOOSE z \in DecimalZeros : z <= c /\ c <= z + 9)

RECURSIVE DigitsValue(_)
DigitsValue(s) == IF s = <<>> THEN 0
                  ELSE DigitsValue(SubSeq(s, 1, Len(s) - 1)) * 10 + DecimalValue(s[Len(s)])

\* whitespace int() skips: non-ASCII str.isspace() code points become ' '
\* (_PyUnicode_TransformDecimalAndSpaceToASCII), then only ASCII
\* space, \t, \n, \v, \f, \r are skipped (Py_ISSPACE)
IntSpace == {9, 10, 11, 12, 13, 32} \cup {c \in PyWhitespace : c > 127}

RECURSIVE IntLStrip(_)
IntLStrip(s) == IF s # <<>> /\ Head(s) \in IntSpace THEN IntLStrip(Tail(s)) ELSE s
RECURSIVE IntRStrip(_)
IntRStrip(s) == IF s # <<>> /\ s[Len(s)] \in IntSpace
                  THEN IntRStrip(SubSeq(s, 1, Len(s) - 1)) ELSE s

\* int(str): surrounding whitespace, optional sign, decimal digits with
\* single underscores between them
PyIntOk(tok) ==
  LET t == IntRStrip(IntLStrip(tok))
      body == IF t # <<>> /\ Head(t) \in {43, 45} THEN Tail(t) ELSE t
  IN /\ body # <<>>
     /\ \A i \in 1..Len(body) : IsDecimal(body[i]) \/ body[i] = 95
     /\ IsDecimal(body[1]) /\ IsDecimal(body[Len(body)])
     /\ \A i \in 1..(Len(body) - 1) : ~(body[i] = 95 /\ body[i + 1] = 95)
PyIntVal(tok) ==
  LET t == IntRStrip(IntLStrip(tok))
      neg == Head(t) = 45
      body == IF Head(t) \in {43, 45} THEN Tail(t) ELSE t
      v == DigitsValue(SelectSeq(body, LAMBDA c : IsDecimal(c)))
  IN IF neg THEN -v ELSE v

NoParse == [kind |-> "pending", val |-> 0, msg |-> <<>>]

\* parse_time_to_seconds(time_str)
ParseTimeToSeconds(s) ==
  LET parts == PySplit(s, Colon)
      n == Len(parts)
      err == [kind |-> "ValueError", val |-> 0, msg |-> <<>>]
  IN IF n \in {1, 2, 3}
       THEN IF \A i \in 1..n : PyIntOk(parts[i])
              THEN [kind |-> "ok",
                    val |-> IF n = 1 THEN PyIntVal(parts[1])
                            ELSE IF n = 2 THEN PyIntVal(parts[1]) * 60 + PyIntVal(parts[2])
                            ELSE PyIntVal(parts[1]) * 3600 + PyIntVal(parts[2]) * 60
                                   + PyIntVal(parts[3]),
                    msg |-> <<>>]
              ELSE err
       ELSE [kind |-> "InvalidTimeFormat", val |-> 0, msg |-> s]

ParseInit ==
  /\ pStr \in SeqsUpTo(TimeAlphabet, MaxTimeLen)
  /\ pRes = NoParse

ParseDefault == pStr = <<>> /\ pRes = NoParse

Parse ==
  /\ pRes = NoParse
  /\ pRes' = ParseTimeToSeconds(pStr)
  /\ UNCHANGED <<pStr, trimVars, sanVars, normVars, ovVars, wordVars, pipeVars>>

(***************************************************************************)
(* Trim engine: trim_audio (yt_dt.py).  Durations are in milliseconds;    *)
(* one frame per millisecond.                                              *)
(***************************************************************************)
MaxSec == 3
NegSec == 2
DurStep == 500
MaxDurSteps == 4
Durations == {k * DurStep : k \in 0..MaxDurSteps}
Seconds == -NegSec..MaxSec

\* Python slice index normalisation for a sequence of length n.
PyIdx(i, n) == IF i < 0 THEN Max(0, i + n) ELSE Min(i, n)

\* AudioSegment._parse_position
ParsePosition(v, d) == IF v < 0 THEN d - Abs(v) ELSE v

\* AudioSegment.__getitem__ for a slice [s:e] of a segment of d ms:
\* the resulting length, or -1 for TooManyMissingFrames.
SliceLen(d, s, e) ==
  LET a == ParsePosition(Min(s, d), d)
      b == ParsePosition(Min(e, d), d)
      dataLen == Max(0, PyIdx(b, d) - PyIdx(a, d))
      missing == (b - a) - dataLen
  \* the padding is silence built from data[:frame_width]: none when data is empty
  IN IF missing > 2 THEN -1
     ELSE dataLen + (IF dataLen > 0 THEN Max(0, missing) ELSE 0)

NoTrim == [kind |-> "pending", len |-> 0, advisory |-> FALSE]

\* trim_audio(input_file, start_seconds, end_seconds, output_file)
TrimAudio(d, ss, es) ==
  LET startMs == ss * 1000
      endMs0 == es * 1000
      adv == endMs0 > d
      endMs == IF adv THEN d ELSE endMs0
  IN IF startMs >= d
       THEN [kind |-> "StartExceedsDuration", len |-> 0, advisory |-> FALSE]
     ELSE IF startMs >= endMs
       THEN [kind |-> "EmptyOrInvertedRange", len |-> 0, advisory |-> adv]
     ELSE LET l == SliceLen(d, startMs, endMs)
          IN IF l < 0
               THEN [kind |-> "TooManyMissingFrames", len |-> 0, advisory |-> adv]
               ELSE [kind |-> "ok", len |-> l, advisory |-> adv]

TrimInit ==
  /\ dur \in Durations
  /\ tStart \in Seconds
  /\ tEnd \in Seconds
  /\ tRes = NoTrim

TrimDefault ==
  /\ dur = 0 /\ tStart = 0 /\ tEnd = 0 /\ tRes = NoTrim

Trim ==
  /\ tRes = NoTrim
  /\ tRes' = TrimAudio(dur, tStart, tEnd)
  /\ UNCHANGED <<dur, tStart, tEnd, parseVars, sanVars, normVars, ovVars,
                 wordVars, pipeVars>>

(***************************************************************************)
(* Filename sanitizer: re.sub(SPECIAL_CHARS, "", .)                         *)
(*   SPECIAL_CHARS = r'[<>:"/\\|?*\x00-\x1F\u2022\u29F8\uff1f]'*)
(***************************************************************************)
SpecialCharsClassNoFullwidth(c) ==
  \/ c \in {60, 62, 58, 34, 47, 92, 124, 63, 42}
  \/ c \in 0..31
  \/ c \in {8226, 10744}

\* the regex character class, member by member
SpecialCharsClass(c) ==
  \/ c \in {60, 62, 58, 34, 47, 92, 124, 63, 42}
  \/ c \in 0..31
  \/ c \in {8226, 10744, 65311}

\* re.sub with a one-character class scans left to right and drops matches
RECURSIVE ReSub(_)
ReSub(s) == IF s = <<>> THEN <<>>
            ELSE IF SpecialCharsClass(Head(s)) THEN ReSub(Tail(s))
            ELSE <<Head(s)>> \o ReSub(Tail(s))

Sanitize(s) == ReSub(s)

MaxSanLen == 3
\* 'a', space, '<', '\', NUL, 0x1F, bullet, fancy slash, fullwidth '?',
\* fraction slash, fullwidth solidus
SanAlphabet == {97, 32, 60, 92, 0, 31, 8226, 10744, 65311, 8260, 65295}

NoStr == <<-1>>

SanInit == sIn \in SeqsUpTo(SanAlphabet, MaxSanLen) /\ sOut = NoStr
SanDefault == sIn = <<>> /\ sOut = NoStr

SanitizeStep ==
  /\ sOut = NoStr
  /\ sOut' = Sanitize(sIn)
  /\ UNCHANGED <<sIn, trimVars, parseVars, normVars, ovVars, wordVars, pipeVars>>

(***************************************************************************)
(* Title normalizer: normalize_visually                                     *)
(* unicodedata.normalize("NFKC", .) on the code points of NormAlphabet:     *)
(* compatibility decomposition, canonical ordering (one combining class     *)
(* occurs), canonical composition.                                          *)
(***************************************************************************)
CombiningAcute == 769
\* compatibility / canonical decomposition mappings (UnicodeData.txt)
Decomp(c) ==
  CASE c = 160 -> <<32>>                \* NO-BREAK SPACE  <noBreak> 0020
    [] c = 180 -> <<32, 769>>           \* ACUTE ACCENT    <compat> 0020 0301
    [] c = 189 -> <<49, 8260, 50>>      \* VULGAR FRACTION ONE HALF
    [] c = 233 -> <<101, 769>>          \* LATIN SMALL LETTER E WITH ACUTE
    [] c = 65295 -> <<47>>              \* FULLWIDTH SOLIDUS <wide> 002F
    [] OTHER -> <<c>>

CombiningClass(c) == IF c = CombiningAcute THEN 230 ELSE 0

\* primary composites: <<starter, mark>> -> composite, 0 if none
Compose(a, b) == IF a = 101 /\ b = 769 THEN 233 ELSE 0

RECURSIVE DecompAll(_)
DecompAll(s) == IF s = <<>> THEN <<>> ELSE Decomp(Head(s)) \o DecompAll(Tail(s))

\* canonical composition: a mark composes with the last starter when no
\* mark of the same class lies between them
RECURSIVE ComposeAcc(_, _)
ComposeAcc(out, s) ==
  IF s = <<>> THEN out
  ELSE LET c == Head(s)
           n == Len(out)
       IN IF CombiningClass(c) # 0 /\ n > 0 /\ CombiningClass(out[n]) = 0
                /\ Compose(out[n], c) # 0
            THEN ComposeAcc([out EXCEPT ![n] = Compose(out[n], c)], Tail(s))
            ELSE ComposeAcc(Append(out, c), Tail(s))

NFKC(s) == ComposeAcc(<<>>, DecompAll(s))

\* str.replace(old, new) for single code points
Replace(s, old, new) == [i \in 1..Len(s) |-> IF s[i] = old THEN new ELSE s[i]]

NormalizeVisuallyNoFraction(s) ==
  PyStrip(
    Replace(Replace(Replace(Replace(Replace(Replace(NFKC(s),
      10744, 47), 160, 32), 8220, 34), 8221, 34), 8216, 39), 8217, 39))

\* normalize_visually(s)
NormalizeVisually(s) ==
  PyStrip(
    Replace(Replace(Replace(Replace(Replace(Replace(Replace(NFKC(s),
      10744, 47),     \* U+29F8 fancy slash
      8260, 47),      \* U+2044 fraction slash
      160, 32),       \* non-breaking space
      8220, 34),
      8221, 34),
      8216, 39),
      8217, 39))

MaxNormLen == 3
\* space, e, combining acute, NBSP, acute accent, one half, fraction slash,
\* fancy slash, right single quote, left double quote, e-acute, fullwidth solidus
NormAlphabet == {32, 101, 769, 160, 180, 189, 8260, 10744, 8217, 8220, 233, 65295}

NormInit == nIn \in SeqsUpTo(NormAlphabet, MaxNormLen) /\ nOut = NoStr
NormDefault == nIn = <<>> /\ nOut = NoStr

Normalize ==
  /\ nOut = NoStr
  /\ nOut' = NormalizeVisually(nIn)
  /\ UNCHANGED <<nIn, trimVars, parseVars, sanVars, ovVars, wordVars, pipeVars>>

(***************************************************************************)
(* Overlay: combined = bass.overlay(drums), pydub AudioSegment.overlay with *)
(* position=0, times=1; samples are added with audioop.add, which clips.    *)
(***************************************************************************)
SampleMag == 2
MinSample == -SampleMag
MaxSample == 1
Samples == MinSample..MaxSample
MaxSegLen == 2

Clip(v) == IF v > MaxSample THEN MaxSample ELSE IF v < MinSample THEN MinSample ELSE v

\* audioop.add(a, b, width) on equal-length fragments
AudioopAdd(a, b) == [i \in 1..Len(a) |-> Clip(a[i] + b[i])]

\* AudioSegment.overlay(self=a, seg=b)
Overlay(a, b) ==
  LET remaining == Max(0, Len(a) - 0)
      b2 == IF Len(b) >= remaining THEN SubSeq(b, 1, remaining) ELSE b
      n2 == Len(b2)
  IN AudioopAdd(SubSeq(a, 1, n2), b2) \o SubSeq(a, n2 + 1, Len(a))

NoSeg == <<MinSample - 1>>

OvInit ==
  /\ seg1 \in SeqsUpTo(Samples, MaxSegLen)
  /\ seg2 \in SeqsUpTo(Samples, MaxSegLen)
  /\ mixed = NoSeg
OvDefault == seg1 = <<>> /\ seg2 = <<>> /\ mixed = NoSeg

OverlayStep ==
  /\ mixed = NoSeg
  /\ mixed' = Overlay(seg1, seg2)
  /\ UNCHANGED <<seg1, seg2, trimVars, parseVars, sanVars, normVars, wordVars, pipeVars>>

(***************************************************************************)
(* The download writes "%(title)s.%(ext)s" with ext mp3 (outtmpl and the    *)
(* FFmpegExtractAudio postprocessor); the title field goes through          *)
(* yt-dlp's sanitize_filename(title, restricted=False, is_id=NO_DEFAULT).   *)
(* Code point 0 is the "\0" substitute marker of that function.            *)
(***************************************************************************)
IsAsciiDigit(c) == c \in 48..57

\* re.sub(r"[0-9]+(?::[0-9]+)+", ... .replace(":", "_")): a ':' between two
\* ASCII digits becomes '_'
YtDlpTimestamp(t) ==
  [i \in 1..Len(t) |->
     IF /\ t[i] = 58 /\ i > 1 /\ i < Len(t)
        /\ IsAsciiDigit(t[i - 1]) /\ IsAsciiDigit(t[i + 1])
       THEN 95 ELSE t[i]]

\* replace_insane(char): '\n' -> "\0 "; " * : < > ? | / \ -> full-width forms
\* ('/' U+29F8, '\' U+29F9); other control characters and DEL are dropped
YtDlpChar(c) ==
  CASE c = 10 -> <<0, 32>>
    [] c = 47 -> <<10744>>
    [] c = 92 -> <<10745>>
    [] c \in {34, 42, 58, 60, 62, 63, 124} -> <<c + 65248>>
    [] c < 32 \/ c = 127 -> <<>>
    [] OTHER -> <<c>>

RECURSIVE YtDlpReplace(_)
YtDlpReplace(t) == IF t = <<>> THEN <<>> ELSE YtDlpChar(Head(t)) \o YtDlpReplace(Tail(t))

\* re.sub(r'(\0.)(?:(?=\1)..)+', r'\1', result): runs of "\0 " become one
RECURSIVE YtDlpCollapse(_)
YtDlpCollapse(s) ==
  IF Len(s) < 4 THEN s
  ELSE IF s[1] = 0 /\ s[3] = 0 THEN YtDlpCollapse(SubSeq(s, 3, Len(s)))
  ELSE <<s[1]>> \o YtDlpCollapse(Tail(s))

\* characters of STRIP_RE = r'(?:\0.|[ _-])*' (the '.' after \0 is always ' ')
YtDlpStripSet == {0, 32, 95, 45}
RECURSIVE YtDlpDropLead(_)
YtDlpDropLead(s) == IF s # <<>> /\ Head(s) \in YtDlpStripSet THEN YtDlpDropLead(Tail(s)) ELSE s
RECURSIVE YtDlpDropTrail(_)
YtDlpDropTrail(s) ==
  IF s # <<>> /\ s[Len(s)] \in YtDlpStripSet THEN YtDlpDropTrail(SubSeq(s, 1, Len(s) - 1)) ELSE s

\* re.sub(f'^\0.{STRIP_RE}|{STRIP_RE}\0.$', '', result)
YtDlpStripSubst(s) ==
  LET lead == IF s # <<>> /\ s[1] = 0 THEN YtDlpDropLead(s) ELSE s
  IN IF Len(lead) >= 2 /\ lead[Len(lead) - 1] = 0 /\ lead[Len(lead)] = 32
       THEN YtDlpDropTrail(lead) ELSE lead

\* sanitize_filename: result.replace('\0', '') or '_'; '' stays ''
YtDlpName(t) ==
  IF t = <<>> THEN <<>>
  ELSE LET r == SelectSeq(YtDlpStripSubst(YtDlpCollapse(YtDlpReplace(YtDlpTimestamp(t)))),
                          LAMBDA c : c # 0)
       IN IF r = <<>> THEN <<95>> ELSE r

(***************************************************************************)
(* download_youtube_audio (yt_dt.py): locating the downloaded .mp3          *)
(***************************************************************************)
\* regex \w and \s on the alphabet used here
IsWordChar(c) == c \in 65..90 \cup 97..122 \cup 48..57 \cup {95}
IsSpaceChar(c) == c \in PyWhitespace
Dash == 45

\* re.sub(r"[^\w\s-]", "", title)
DropPunct(s) == SelectSeq(s, LAMBDA c : IsWordChar(c) \/ IsSpaceChar(c) \/ c = Dash)

\* re.sub(r"[-\s]+", "-", s): each maximal run of '-'/whitespace becomes '-'
RECURSIVE CollapseAcc(_, _, _)
CollapseAcc(out, s, inRun) ==
  IF s = <<>> THEN out
  ELSE IF Head(s) = Dash \/ IsSpaceChar(Head(s))
         THEN IF inRun THEN CollapseAcc(out, Tail(s), TRUE)
              ELSE CollapseAcc(Append(out, Dash), Tail(s), TRUE)
       ELSE CollapseAcc(Append(out, Head(s)), Tail(s), FALSE)

CleanTitle(t) == CollapseAcc(<<>>, PyStrip(DropPunct(t)), FALSE)

\* str.split() without arguments: whitespace runs, empty fields dropped
PyWords(s) == SelectSeq(PySplit([i \in 1..Len(s) |-> IF IsSpaceChar(s[i]) THEN 32 ELSE s[i]], 32),
                        LAMBDA w : w # <<>>)

\* sum(1 for word in title_words if word in file_stem_lower)
WordMatches(words, stemLower) ==
  LET RECURSIVE Count(_)
      Count(i) == IF i = 0 THEN 0
                  ELSE Count(i - 1) + (IF IsSubstring(words[i], stemLower) THEN 1 ELSE 0)
  IN Count(Len(words))

WordThresholdIntDiv(matches, nWords) == matches >= (nWords * 7) \div 10

\* matches >= len(title_words) * 0.7
WordThreshold(matches, nWords) == 10 * matches >= 7 * nWords

\* a for loop returning at its first hit: the least index of S, 0 if S is empty
FirstIdx(S) == IF S = {} THEN 0 ELSE CHOOSE i \in S : \A j \in S : i <= j

\* max(mp3_files, key=mtime): the first file of maximal mtime
NewestIdx(files) ==
  CHOOSE i \in 1..Len(files) :
    /\ \A j \in 1..Len(files) : files[j].mtime <= files[i].mtime
    /\ \A j \in 1..(i - 1) : files[j].mtime < files[i].mtime

NoWordRes == [kind |-> "pending", idx |-> 0, path |-> <<>>]

\* the file search of download_youtube_audio(url, output_dir)
FindDownloaded(t, files) ==
  LET clean == CleanTitle(t)
      words == PyWords(PyLower(t))
      exactIdx == FirstIdx({i \in 1..Len(files) :
                              IsSubstring(PyLower(clean), PyLower(files[i].stem))})
      wordIdx == FirstIdx({i \in 1..Len(files) :
                             WordThreshold(WordMatches(words, PyLower(files[i].stem)), Len(words))})
  IN IF exactIdx # 0 THEN [kind |-> "file", idx |-> exactIdx, path |-> files[exactIdx].stem]
     ELSE IF wordIdx # 0 THEN [kind |-> "file", idx |-> wordIdx, path |-> files[wordIdx].stem]
     ELSE IF Len(files) > 0
       THEN [kind |-> "file", idx |-> NewestIdx(files), path |-> files[NewestIdx(files)].stem]
     ELSE [kind |-> "expected", idx |-> 0, path |-> clean]

MaxWTitleLen == 3
WTitleAlphabet == {97, 33, 32}
MaxStemLen == 1
StemAlphabet == {97, Dash}
MaxMtime == 2
MaxFiles == 2
\* the file just downloaded for title t, and older .mp3 files of the directory
Mp3Files(t) == [stem : (SeqsUpTo(StemAlphabet, MaxStemLen) \ {<<>>}) \cup {YtDlpName(t)},
                mtime : 1..MaxMtime]
\* titles as reported by yt-dlp: non-empty
WTitles == SeqsUpTo(WTitleAlphabet, MaxWTitleLen) \ {<<>>}

WordInit ==
  /\ wTitle \in WTitles
  \* mp3_files = list(Path(output_dir).glob("*.mp3")) after ydl.download: distinct
  \* names, in any order, among them the downloaded file
  /\ wFiles \in {fs \in SeqsUpTo(Mp3Files(wTitle), MaxFiles) :
                   /\ \A i, j \in 1..Len(fs) : i # j => fs[i].stem # fs[j].stem
                   /\ \E i \in 1..Len(fs) : fs[i].stem = YtDlpName(wTitle)}
  /\ wDir = wFiles
  /\ wRes = NoWordRes
WordDefault == wTitle = <<>> /\ wFiles = <<>> /\ wRes = NoWordRes /\ wDir = <<>>

FindFile ==
  /\ wRes = NoWordRes
  /\ wRes' = FindDownloaded(wTitle, wFiles)
  /\ UNCHANGED <<wTitle, wFiles, wDir, trimVars, parseVars, sanVars, normVars, ovVars, pipeVars>>

\* main(): cleanup_temp_file(temp_audio_file) after a successful trim unless
\* --keep-temp; removes the returned file from the output directory (the
\* expected filename of an empty directory does not exist, nothing happens)
CleanupTempFile ==
  /\ wRes.kind = "file"
  /\ wDir = wFiles
  /\ wDir' = SelectSeq(wDir, LAMBDA f : f.stem # wFiles[wRes.idx].stem)
  /\ UNCHANGED <<wTitle, wFiles, wRes, trimVars, parseVars, sanVars, normVars, ovVars, pipeVars>>

(***************************************************************************)
(* Main flow of extract_bass_drums_from_youtube.py after the download:      *)
(* resolve the file, sanitise, run demucs, load stems, normalise, overlay,  *)
(* export.                                                                  *)
(***************************************************************************)
TargetExt == <<46, 109, 112, 51>>        \* ".mp3"
Exts == {<<46, 109, 112, 51>>, <<46, 77, 80, 51>>, <<46, 119, 97, 118>>}  \* .mp3 .MP3 .wav
MaxBaseLen == 1
\* a, A, fancy slash, fancy backslash (U+29F9), NBSP
BaseAlphabet == {97, 65, 10744, 10745, 160}
MaxTitleLen == 2
\* a, A, '/', '\'
TitleAlphabet == {97, 65, 47, 92}
MaxListing == 2
FileNames == {b \o e : b \in SeqsUpTo(BaseAlphabet, MaxBaseLen), e \in Exts}
\* titles as reported by yt-dlp: non-empty
Titles == SeqsUpTo(TitleAlphabet, MaxTitleLen) \ {<<>>}
\* outtmpl "./%(title)s.%(ext)s" after FFmpegExtractAudio to mp3
DownloadedName(t) == YtDlpName(t) \o TargetExt

MatchLoopRaw(normTitle, files) ==
  FirstIdx({i \in 1..Len(files) :
              /\ EndsWith(PyLower(files[i]), TargetExt)
              /\ IsSubstring(PyLower(normTitle), PyLower(files[i]))})

\* the matching_file_path loop: index of the first entry, 0 if none
MatchLoop(normTitle, files) ==
  FirstIdx({i \in 1..Len(files) :
              /\ EndsWith(PyLower(files[i]), TargetExt)
              /\ IsSubstring(PyLower(normTitle), PyLower(NormalizeVisually(files[i])))})

\* demucs names its output directory after track.name.rsplit(".", 1)[0]
DemucsTrackDir(path) ==
  IF \E i \in 1..Len(path) : path[i] = 46
    THEN SubSeq(path, 1, (CHOOSE i \in 1..Len(path) :
                            path[i] = 46 /\ \A j \in (i + 1)..Len(path) : path[j] # 46) - 1)
    ELSE path

\* dBFS values: finite, or -infinity for a silent segment (rms = 0)
NegInfDb == [fin |-> FALSE, v |-> -1]
StemLevels == {NegInfDb, [fin |-> TRUE, v |-> -20], [fin |-> TRUE, v |-> -40]}
NoDb == [fin |-> TRUE, v |-> 0]
TargetDBFS == -30

\* target - seg.dBFS in float arithmetic: -30 - (-inf) = +inf
GainFor(t, d) == IF d.fin THEN [fin |-> TRUE, v |-> t - d.v] ELSE [fin |-> FALSE, v |-> 1]

PipeInit ==
  /\ title \in Titles
  \* os.listdir("."): distinct names in any order, among them the file
  \* download_youtube_mp3 just wrote
  /\ listing \in {l \in SeqsUpTo(FileNames \cup {DownloadedName(title)}, MaxListing) :
                    /\ \A i, j \in 1..Len(l) : i # j => l[i] # l[j]
                    /\ \E i \in 1..Len(l) : l[i] = DownloadedName(title)}
  /\ pc = "resolve"
  /\ matchIdx = 0
  /\ safePath = <<>>
  /\ safeTitle = <<>>
  /\ demucsOk = FALSE
  \* stems of an earlier run of the same title may already be on disk
  /\ demucsDirs \in {{}, {Sanitize(NormalizeVisually(title))}}
  /\ bassDb = NoDb /\ drumsDb = NoDb /\ bassGain = NoDb /\ drumsGain = NoDb
  /\ outputWritten = FALSE
  /\ errTitle = <<>>

PipeDefault ==
  /\ title = <<>> /\ listing = <<>> /\ pc = "idle" /\ matchIdx = 0
  /\ safePath = <<>> /\ safeTitle = <<>> /\ demucsOk = FALSE /\ demucsDirs = {}
  /\ bassDb = NoDb /\ drumsDb = NoDb /\ bassGain = NoDb /\ drumsGain = NoDb
  /\ outputWritten = FALSE /\ errTitle = <<>>

\* os.rename(l[i], new) on the directory listing l
Rename(l, i, new) ==
  LET r == [l EXCEPT ![i] = new]
  IN IF new = l[i] THEN l
     ELSE SelectSeq([j \in 1..Len(r) |-> IF j # i /\ r[j] = new THEN <<>> ELSE r[j]],
                    LAMBDA f : f # <<>>)

\* "_bass_and_drums.mp3"
ExportSuffix == <<95, 98, 97, 115, 115, 95, 97, 110, 100, 95, 100, 114, 117, 109, 115,
                  46, 109, 112, 51>>

\* lines 81-109: find the file, sanitise names, rename
Resolve ==
  /\ pc = "resolve"
  /\ LET nt == NormalizeVisually(title)
         i == MatchLoop(nt, listing)
     IN IF i = 0
          THEN /\ pc' = "NoMatchingFile"
               \* FileNotFoundError(f"Couldn't find a file matching: {normalized_title}")
               /\ errTitle' = nt
               /\ UNCHANGED <<matchIdx, safePath, safeTitle, listing>>
          ELSE /\ matchIdx' = i
               /\ safePath' = Sanitize(listing[i])
               /\ safeTitle' = Sanitize(nt)
               \* os.rename replaces an existing entry named safe_path
               /\ listing' = Rename(listing, i, Sanitize(listing[i]))
               /\ pc' = "separate"
               /\ UNCHANGED errTitle
  /\ UNCHANGED <<title, demucsOk, demucsDirs, bassDb, drumsDb, bassGain, drumsGain,
                 outputWritten, trimVars, parseVars, sanVars, normVars, ovVars, wordVars>>

\* separate_audio_with_demucs(safe_path): CalledProcessError is printed and swallowed
Separate ==
  /\ pc = "separate"
  /\ \E ok \in BOOLEAN :
       /\ demucsOk' = ok
       /\ demucsDirs' = IF ok THEN demucsDirs \cup {DemucsTrackDir(safePath)} ELSE demucsDirs
  /\ pc' = "load"
  /\ UNCHANGED <<title, errTitle, listing, matchIdx, safePath, safeTitle, bassDb, drumsDb, bassGain,
                 drumsGain, outputWritten, trimVars, parseVars, sanVars, normVars, ovVars, wordVars>>

\* AudioSegment.from_file(f"./separated/htdemucs/{safe_title}/bass.mp3"), drums likewise
LoadStems ==
  /\ pc = "load"
  /\ IF safeTitle \in demucsDirs
       THEN \E b, d \in StemLevels : bassDb' = b /\ drumsDb' = d /\ pc' = "gain"
       ELSE pc' = "FileNotFoundError" /\ UNCHANGED <<bassDb, drumsDb>>
  /\ UNCHANGED <<title, errTitle, listing, matchIdx, safePath, safeTitle, demucsOk, demucsDirs, bassGain,
                 drumsGain, outputWritten, trimVars, parseVars, sanVars, normVars, ovVars, wordVars>>

\* bass = bass.apply_gain(target_bass_dBFS - bass.dBFS), drums likewise
ApplyGain ==
  /\ pc = "gain"
  /\ bassGain' = GainFor(TargetDBFS, bassDb)
  /\ drumsGain' = GainFor(TargetDBFS, drumsDb)
  /\ pc' = "overlay"
  /\ UNCHANGED <<title, errTitle, listing, matchIdx, safePath, safeTitle, demucsOk, demucsDirs, bassDb,
                 drumsDb, outputWritten, trimVars, parseVars, sanVars, normVars, ovVars, wordVars>>

\* combined = bass.overlay(drums)
OverlayStems ==
  /\ pc = "overlay"
  /\ pc' = "export"
  /\ UNCHANGED <<title, errTitle, listing, matchIdx, safePath, safeTitle, demucsOk, demucsDirs, bassDb,
                 drumsDb, bassGain, drumsGain, outputWritten, trimVars, parseVars, sanVars,
                 normVars, ovVars, wordVars>>

\* combined.export(f"{safe_title}_bass_and_drums.mp3")
Export ==
  /\ pc = "export"
  /\ outputWritten' = TRUE
  /\ LET out == safeTitle \o ExportSuffix
     IN listing' = IF \E j \in 1..Len(listing) : listing[j] = out THEN listing
                   ELSE Append(listing, out)
  /\ pc' = "done"
  /\ UNCHANGED <<title, errTitle, matchIdx, safePath, safeTitle, demucsOk, demucsDirs, bassDb,
                 drumsDb, bassGain, drumsGain, trimVars, parseVars, sanVars, normVars, ovVars,
                 wordVars>>

(***************************************************************************)
(* Specifications                                                           *)
(***************************************************************************)
InitTrim == TrimInit /\ ParseDefault /\ SanDefault /\ NormDefault /\ OvDefault
            /\ WordDefault /\ PipeDefault
NextTrim == Trim
SpecTrim == InitTrim /\ [][NextTrim]_vars

InitParse == TrimDefault /\ ParseInit /\ SanDefault /\ NormDefault /\ OvDefault
             /\ WordDefault /\ PipeDefault
NextParse == Parse
SpecParse == InitParse /\ [][NextParse]_vars

InitSan == TrimDefault /\ ParseDefault /\ SanInit /\ NormDefault /\ OvDefault
           /\ WordDefault /\ PipeDefault
NextSan == SanitizeStep
SpecSan == InitSan /\ [][NextSan]_vars

InitNorm == TrimDefault /\ ParseDefault /\ SanDefault /\ NormInit /\ OvDefault
            /\ WordDefault /\ PipeDefault
NextNorm == Normalize
SpecNorm == InitNorm /\ [][NextNorm]_vars

InitOv == TrimDefault /\ ParseDefault /\ SanDefault /\ NormDefault /\ OvInit
          /\ WordDefault /\ PipeDefault
NextOv == OverlayStep
SpecOv == InitOv /\ [][NextOv]_vars

InitWord == TrimDefault /\ ParseDefault /\ SanDefault /\ NormDefault /\ OvDefault
            /\ WordInit /\ PipeDefault
NextWord == FindFile \/ CleanupTempFile
SpecWord == InitWord /\ [][NextWord]_vars

Init == TrimDefault /\ ParseDefault /\ SanDefault /\ NormDefault /\ OvDefault
        /\ WordDefault /\ PipeInit
Next == Resolve \/ Separate \/ LoadStems \/ ApplyGain \/ OverlayStems \/ Export
Spec == Init /\ [][Next]_vars

\* the resolution step alone
SpecResolve == Init /\ [][Resolve]_vars

(***************************************************************************)
(* Properties                                                               *)
(***************************************************************************)

\* C1: trim_audio fails StartExceedsDuration when start_ms >= D (checked
\* first); otherwise clamps end_ms to D with an advisory when end_ms > D;
\* then fails EmptyOrInvertedRange when start_ms >= end_ms; otherwise
\* succeeds with output length end_ms - start_ms, for all integer seconds.
C1_TrimContract ==
  tRes.kind # "pending" =>
    LET sm == tStart * 1000
        em == tEnd * 1000
        e == IF em > dur THEN dur ELSE em
    IN IF sm >= dur THEN tRes.kind = "StartExceedsDuration"
       ELSE /\ tRes.advisory = (em > dur)
            /\ IF sm >= e THEN tRes.kind = "EmptyOrInvertedRange"
               ELSE tRes.kind = "ok" /\ tRes.len = e - sm

IsNumeral(w) == w # <<>> /\ \A i \in 1..Len(w) : w[i] \in Digits

\* C2: parse_time_to_seconds returns 60-based totals for 1, 2 or 3 colon
\* separated non-negative integer components, fails InvalidTimeFormat naming
\* the string for any other number of parts, and never accepts negative or
\* fractional components.
C2_ParseContract ==
  pRes.kind # "pending" =>
    LET parts == PySplit(pStr, Colon)
        n == Len(parts)
        V(i) == DigitsValue(parts[i])
    IN /\ (n \in {1, 2, 3} /\ \A i \in 1..n : IsNumeral(parts[i])) =>
             /\ pRes.kind = "ok"
             /\ pRes.val = IF n = 1 THEN V(1)
                           ELSE IF n = 2 THEN 60 * V(1) + V(2)
                           ELSE 3600 * V(1) + 60 * V(2) + V(3)
       /\ n \notin {1, 2, 3} => pRes.kind = "InvalidTimeFormat" /\ pRes.msg = pStr
       /\ (\E i \in 1..n : \E j \in 1..Len(parts[i]) : parts[i][j] \in {45, 46})
             => pRes.kind # "ok"

\* the disallowed set as the claim lists it
Disallowed == {60, 62, 58, 34, 47, 92, 124, 63, 42} \cup 0..31 \cup {8226, 10744, 65311}

\* C3: the sanitizer's output contains no disallowed character, equals the
\* input with exactly the disallowed characters removed, and is a fixed point
\* of the sanitizer (idempotence), for every input including the empty one.
C3_SanitizeClean ==
  sOut # NoStr =>
    /\ \A i \in 1..Len(sOut) : sOut[i] \notin Disallowed
    /\ sOut = SelectSeq(sIn, LAMBDA c : c \notin Disallowed)
    /\ Sanitize(sOut) = sOut

\* witness: some characters removed, some kept
C3_Witness == sOut # NoStr /\ 0 < Len(sOut) /\ Len(sOut) < Len(sIn)

\* C4: normalize_visually is idempotent, and its result contains none of the
\* substituted glyphs and no leading or trailing whitespace.
C4_NormalizeIdempotent ==
  nOut # NoStr =>
    /\ NormalizeVisually(nOut) = nOut
    /\ \A i \in 1..Len(nOut) : nOut[i] \notin {8260, 10744, 8216, 8217, 8220, 8221, 160}
    /\ nOut # <<>> => nOut[1] \notin PyWhitespace /\ nOut[Len(nOut)] \notin PyWhitespace

\* witness: a vulgar fraction whose NFKC form carries a fraction slash
C4_Witness == nOut # NoStr /\ \E i \in 1..Len(nIn) : nIn[i] = 189

\* C5: the resolver picks the first listed entry ending (case-insensitively)
\* in .mp3 whose normalized lower-cased name contains the lower-cased
\* normalized title; with no such entry it fails NoMatchingFile and the
\* pipeline never proceeds.
C5_Resolver ==
  [][pc = "resolve" =>
       LET nt == NormalizeVisually(title)
           Cand(f) == EndsWith(PyLower(f), <<46, 109, 112, 51>>)
                      /\ IsSubstring(PyLower(nt), PyLower(NormalizeVisually(f)))
       IN IF \E i \in 1..Len(listing) : Cand(listing[i])
            THEN /\ pc' = "separate"
                 /\ Cand(listing[matchIdx'])
                 /\ \A j \in 1..(matchIdx' - 1) : ~Cand(listing[j])
                 /\ safePath' = Sanitize(listing[matchIdx'])
            ELSE pc' = "NoMatchingFile" /\ errTitle' = nt /\ safePath' = <<>>
     /\ pc' \in {"separate", "load", "gain", "overlay", "export", "done"} => matchIdx' # 0
     ]_vars

\* witness: the match is the second entry and the title holds a '/', which no
\* file name holds: the match exists only after normalisation (U+29F8 -> '/')
C5_Witness == pc = "separate" /\ matchIdx = 2 /\ \E k \in 1..Len(title) : title[k] = 47

\* C6: overlay output lasts as long as the longer input, swapping inputs
\* keeps the duration, and overlaying a zero-length buffer returns the
\* original.
C6_OverlayDuration ==
  mixed # NoSeg =>
    /\ Len(mixed) = Max(Len(seg1), Len(seg2))
    /\ Len(Overlay(seg2, seg1)) = Len(mixed)
    /\ Len(seg2) = 0 => mixed = seg1

CoverageOk(words, f) ==
  10 * Cardinality({i \in 1..Len(words) : IsSubstring(words[i], PyLower(f.stem))})
    >= 7 * Len(words)

\* C7 (as stated): a candidate is accepted only at >= 70% word coverage;
\* otherwise the newest .mp3; the expected name only without .mp3 files.
C7_WordOnly ==
  wRes.kind # "pending" =>
    LET words == PyWords(PyLower(wTitle))
        Ok(f) == CoverageOk(words, f)
    IN /\ (wRes.kind = "expected") = (Len(wFiles) = 0)
       /\ wRes.kind = "file" =>
            IF \E i \in 1..Len(wFiles) : Ok(wFiles[i])
              THEN Ok(wFiles[wRes.idx])
              ELSE \A j \in 1..Len(wFiles) : wFiles[j].mtime <= wFiles[wRes.idx].mtime

\* C7 (amended): the first .mp3 whose stem contains the cleaned title
\* (case-insensitively); else the first with >= 70% of the title's words as
\* substrings of its stem; else the first newest .mp3; else the expected
\* name built from the cleaned title.
C7_Amended ==
  wRes.kind # "pending" =>
    LET words == PyWords(PyLower(wTitle))
        clean == CleanTitle(wTitle)
        Exact(f) == IsSubstring(PyLower(clean), PyLower(f.stem))
        Ok(f) == CoverageOk(words, f)
        k == wRes.idx
    IN IF \E i \in 1..Len(wFiles) : Exact(wFiles[i])
         THEN wRes.kind = "file" /\ Exact(wFiles[k]) /\ \A j \in 1..(k - 1) : ~Exact(wFiles[j])
       ELSE IF \E i \in 1..Len(wFiles) : Ok(wFiles[i])
         THEN wRes.kind = "file" /\ Ok(wFiles[k]) /\ \A j \in 1..(k - 1) : ~Ok(wFiles[j])
       ELSE IF Len(wFiles) > 0
         THEN /\ wRes.kind = "file"
              /\ \A j \in 1..Len(wFiles) : wFiles[j].mtime <= wFiles[k].mtime
              /\ \A j \in 1..(k - 1) : wFiles[j].mtime < wFiles[k].mtime
       ELSE wRes.kind = "expected" /\ wRes.path = clean

\* witness: a file accepted by the cleaned-title rule below 70% coverage
C7_Witness ==
  wRes.kind = "file" /\ CleanTitle(wTitle) # <<>>
  /\ IsSubstring(PyLower(CleanTitle(wTitle)), PyLower(wFiles[wRes.idx].stem))
  /\ ~CoverageOk(PyWords(PyLower(wTitle)), wFiles[wRes.idx])

\* C8: a non-zero demucs exit is fatal: no stem loading, normalisation,
\* overlay or export follows and no output file is written.
C8_DemucsFatal ==
  /\ pc \in {"load", "gain", "overlay", "export", "done"} => demucsOk
  /\ outputWritten => demucsOk

\* C9: a silent stem (dBFS = -inf) fails DegenerateSignal and never gets a
\* non-finite gain; any other stem gets gain target - current.
C9_FiniteGain ==
  pc \in {"overlay", "export", "done"} =>
    /\ bassDb.fin /\ drumsDb.fin
    /\ bassGain = [fin |-> TRUE, v |-> TargetDBFS - bassDb.v]
    /\ drumsGain = [fin |-> TRUE, v |-> TargetDBFS - drumsDb.v]

\* C10: the stem directory read, sanitize(normalized title), is the
\* directory demucs writes for the renamed file, stem(sanitize(file)).
C10_StemDirConsistent ==
  pc \in {"separate", "load", "gain", "overlay", "export", "done"} =>
    safeTitle = DemucsTrackDir(safePath)

====
